---- MODULE Spec2Model ----
(***************************************************************************)
(* Connection manager and client-message protocol handler of the          *)
(* Tamagotchi web application (app/api/websocket.py).                      *)
(*                                                                         *)
(* One session (coroutine handle_websocket) runs per connection.  The      *)
(* sessions are interleaved by the asyncio event loop: a session runs      *)
(* without interruption between two awaits, and any other session may run  *)
(* while it is suspended on one.  Every action below is therefore "resume  *)
(* from the pending await, then run the synchronous code up to the next    *)
(* await".  pc[s] names the await session s is suspended on.               *)
(***************************************************************************)
EXTENDS Integers, Sequences, FiniteSets, TLC

\* ------------------------------------------------------------------ bounds
NConn == 2          \* connections (one session each)
MaxFrames == 2      \* frames received over all sessions
MaxFaults == 2      \* calls that raise: failed sends, accepts, collaborator calls

Conns == 1..NConn

\* ------------------------------------------------------------ wire protocol
None == "None"      \* Python's None (a missing key of the message dict)

RecognizedActions == {"feed", "play", "sleep", "pet", "revive"}

\* The frames a client may send: text that is no JSON, JSON that is no object,
\* and objects with every kind of "type" and "action" the router distinguishes.
Frames ==
    {[json |-> "invalid", type |-> None, action |-> None],
     [json |-> "nonobject", type |-> None, action |-> None]}
    \cup {[json |-> "object", type |-> t, action |-> None] :
             t \in {"ping", "get_state", "chat", "dance", None}}
    \cup {[json |-> "object", type |-> "action", action |-> a] :
             a \in RecognizedActions \cup {"fly", None}}

NoFrame == [json |-> "none", type |-> None, action |-> None]

\* The payload of an envelope that carries a fixed text and nothing else.
Text(text) == [text |-> text]

\* The payload of an envelope that has none (pong), or no envelope.
NoMessage == [text |-> None]

\* An error text that does not say which type was unknown.
UnknownTypeMessage_generic(message_type) ==
    [text |-> "Unknown message type", name |-> ""]

\* f"Unknown message type: {message_type}"
UnknownTypeMessage(message_type) ==
    [text |-> "Unknown message type: ", name |-> message_type]

\* f"Unknown action: {action}"
UnknownActionMessage(action) == [text |-> "Unknown action: ", name |-> action]

\* A Pet State Snapshot; the one that does not exist is Python's None.
NoSnapshot == [exists |-> FALSE, version |-> 0, current_mood |-> None]

\* A payload built without the test for a snapshot that does not exist.
StateData_unchecked(tamagotchi_state) ==
    [null |-> FALSE, version |-> tamagotchi_state.version,
     current_mood |-> tamagotchi_state.current_mood]

\* "data": tamagotchi_state.to_dict() if tamagotchi_state else None.  null:
\* the data are None, and the other fields are without meaning.
StateData(tamagotchi_state) ==
    [null |-> ~tamagotchi_state.exists,
     version |-> IF tamagotchi_state.exists THEN tamagotchi_state.version
                 ELSE 0,
     current_mood |-> IF tamagotchi_state.exists
                      THEN tamagotchi_state.current_mood ELSE None]

\* current_state.current_mood if current_state else the neutral face
Mood(current_state_) ==
    IF current_state_.exists THEN current_state_.current_mood ELSE "neutral"

\* The local result before the State Engine has returned one.
NoResult == [success |-> FALSE, message |-> <<>>,
             stat_changes |-> [from |-> 0, to |-> 0]]

\* The payload of a chat_message envelope.
ChatMessage(response, mood) == [response |-> response, mood |-> mood]

\* ------------------------------------------------------------------- state
VARIABLES
    active_connections, \* ConnectionManager.active_connections: a list
    members,            \* the connections registered and not deregistered since
    pc,                 \* per session: the await it is suspended on
    nframes,            \* frames received so far (the id of the newest dispatch)
    disp,               \* per session: the dispatch it is running / ran last
    env,                \* per session: the personal envelope about to be sent
    sweep,              \* per session: the running broadcast (the for loop)
    done,               \* per session: the broadcasts of its dispatch that returned
    sent,               \* per connection: every send attempt made to it, in order
    engine,             \* the State Engine's pet state
    current_state,      \* per session: local current_state
    result,             \* per session: local result (the ActionResult)
    closing,            \* per session: disconnect calls made by its loop ending
    faults              \* calls that raised so far

vars == <<active_connections, members, pc, nframes, disp, env, sweep, done,
          sent, engine, current_state, result, closing, faults>>

Range(l) == {l[i] : i \in 1..Len(l)}

\* A payload whose stat_changes are computed again, as the difference to the
\* state the pet is in when the envelope is built.
ActionResultMessage_recomputed(action, result_, response) ==
    [action |-> action, success |-> result_.success,
     message |-> result_.message,
     stat_changes |-> [from |-> result_.stat_changes.from,
                       to |-> engine.version],
     response |-> response]

\* The payload of an action_result envelope: the fields of the ActionResult
\* that handle_action_message passes on, and the narrative.
ActionResultMessage(action, result_, response) ==
    [action |-> action, success |-> result_.success,
     message |-> result_.message, stat_changes |-> result_.stat_changes,
     response |-> response]

\* ------------------------------------------------------- Connection Registry
\* list.remove(x): drops the first occurrence of x.
ListRemove(l, x) ==
    LET i == CHOOSE k \in 1..Len(l) : l[k] = x /\ \A j \in 1..(k - 1) : l[j] # x
    IN  [k \in 1..(Len(l) - 1) |-> IF k < i THEN l[k] ELSE l[k + 1]]

\* A disconnect that pops the newest connection, whichever it is asked for.
disconnect_last(conns, websocket) ==
    IF conns = <<>> THEN conns ELSE SubSeq(conns, 1, Len(conns) - 1)

\* ConnectionManager.disconnect: remove the connection if it is in the list.
disconnect(conns, websocket) ==
    IF websocket \in Range(conns) THEN ListRemove(conns, websocket) ELSE conns

\* A clean-up that empties the Registry when a send has failed.
disconnect_all_clear(conns, disconnected) ==
    IF disconnected = <<>> THEN conns ELSE <<>>

\* the clean-up loop of broadcast: disconnect every collected connection.
RECURSIVE disconnect_all(_, _)
disconnect_all(conns, disconnected) ==
    IF disconnected = <<>> THEN conns
    ELSE disconnect_all(disconnect(conns, Head(disconnected)), Tail(disconnected))

\* ConnectionManager.get_connection_count
get_connection_count == Len(active_connections)

\* ------------------------------------------------------------- empty records
NoDispatch == [id |-> 0, frame |-> NoFrame, calls |-> <<>>,
               collab_raised |-> FALSE, status |-> "none", after_raise |-> FALSE]
NoEnvelope == [type |-> None, message |-> NoMessage]
NoSweep == [on |-> FALSE, type |-> None, message |-> NoMessage, cur |-> 0,
            idx |-> 0, disconnected |-> <<>>, before |-> <<>>, tried |-> <<>>,
            gone |-> {}]

\* The connection has been in the Registry, or was refused, and is not in it.
Removed(c) == pc[c] # "connect" /\ c \notin Range(active_connections)

Init ==
    /\ active_connections = <<>>
    /\ members = {}
    /\ pc = [s \in Conns |-> "connect"]
    /\ nframes = 0
    /\ disp = [s \in Conns |-> NoDispatch]
    /\ env = [s \in Conns |-> NoEnvelope]
    /\ sweep = [s \in Conns |-> NoSweep]
    /\ done = [s \in Conns |-> <<>>]
    /\ sent = [c \in Conns |-> <<>>]
    /\ engine \in {[version |-> 0, pet |-> b] : b \in BOOLEAN}
    /\ current_state = [s \in Conns |-> NoSnapshot]
    /\ result = [s \in Conns |-> NoResult]
    /\ closing = [s \in Conns |-> 0]
    /\ faults = 0

\* ---------------------------------------------------------------- transport
\* websocket.send_text(...) to connection c: the outcomes it can have.  It
\* returns (TRUE) or raises (FALSE); on a transport whose session has ended it
\* raises.
send_text(c) ==
    IF pc[c] \in {"closed", "raised"} THEN {FALSE}
    ELSE IF faults < MaxFaults THEN BOOLEAN ELSE {TRUE}

\* The outcomes of websocket.accept() and of a call of the State Engine or of
\* the Response Generator: it returns (TRUE) or raises (FALSE).
Call == IF faults < MaxFaults THEN BOOLEAN ELSE {TRUE}

\* The count of raised calls after a call with this outcome.  A send to a
\* connection whose session has ended is no fault of the transport.
Raised(ok, c) ==
    IF ok \/ pc[c] \in {"closed", "raised"} THEN faults ELSE faults + 1

\* One send attempt, as the receiving side's log keeps it.  present: c was in
\* the Registry when the broadcast (bc) it belongs to started.
Attempt(type, message, d, ok, bc, present) ==
    [type |-> type, message |-> message, d |-> d, ok |-> ok, bc |-> bc,
     present |-> present]

\* ------------------------------------------------------------ State Engine
\* GameEngine.get_state(): the snapshot of the pet, or none if there is no pet
\* yet.  version: the number of actions applied so far.
Engine_get_state ==
    IF engine.pet
    THEN [exists |-> TRUE, version |-> engine.version, current_mood |-> "happy"]
    ELSE NoSnapshot

\* The ActionResult the State Engine returns for the action that has made the
\* pet e: whether there was a pet to act on, a text, and the change of the
\* stats, here from which version to which.
Engine_result(e) ==
    [success |-> e.pet, message |-> <<"done", e.version>>,
     stat_changes |-> [from |-> e.version - 1, to |-> e.version]]

\* LLMClient.get_response(current_state, action=...): the narrative string.
Llm_get_response(current_state_, action) ==
    <<"narrative", action, current_state_.version>>

\* GameEngine.feed/play/sleep/pet/revive: the pet after the action.
Engine_apply(e) == [e EXCEPT !.version = @ + 1]

\* ------------------------------------------------------- Connection Session
\* A connect that appends the connection to the list twice.
connect_twice(s) ==
    /\ pc[s] = "connect"
    /\ \A t \in Conns : t < s => pc[t] # "connect"
    /\ \E accepted \in Call :
         /\ faults' = Raised(accepted, s)
         /\ IF accepted
            THEN /\ active_connections' = active_connections \o <<s, s>>
                 /\ members' = members \cup {s}
                 /\ pc' = [pc EXCEPT ![s] = "welcome_state"]
            ELSE \* accept() raises: the exception leaves handle_websocket
                 /\ pc' = [pc EXCEPT ![s] = "raised"]
                 /\ UNCHANGED <<active_connections, members>>
    /\ UNCHANGED <<nframes, disp, env, sweep, done, sent, engine,
                   current_state, result, closing>>

\* ConnectionManager.connect, called first by handle_websocket, outside its
\* try block: await websocket.accept(), then append to the list.  Connections
\* are numbered in the order in which they arrive.
connect(s) ==
    /\ pc[s] = "connect"
    /\ \A t \in Conns : t < s => pc[t] # "connect"
    /\ \E accepted \in Call :
         /\ faults' = Raised(accepted, s)
         /\ IF accepted
            THEN /\ active_connections' = Append(active_connections, s)
                 /\ members' = members \cup {s}
                 /\ pc' = [pc EXCEPT ![s] = "welcome_state"]
            ELSE \* accept() raises: the exception leaves handle_websocket
                 /\ pc' = [pc EXCEPT ![s] = "raised"]
                 /\ UNCHANGED <<active_connections, members>>
    /\ UNCHANGED <<nframes, disp, env, sweep, done, sent, engine,
                   current_state, result, closing>>

\* handle_websocket: current_state = await self.game_engine.get_state(), still
\* outside the try block.
welcome_get_state(s) ==
    /\ pc[s] = "welcome_state"
    /\ \E returned \in Call :
         /\ faults' = Raised(returned, s)
         /\ IF returned
            THEN /\ current_state' = [current_state EXCEPT ![s] = Engine_get_state]
                 /\ pc' = [pc EXCEPT ![s] = "welcome_send"]
            ELSE \* the exception leaves handle_websocket; the list keeps s
                 /\ pc' = [pc EXCEPT ![s] = "raised"]
                 /\ UNCHANGED current_state
    /\ UNCHANGED <<active_connections, members, nframes, disp, env, sweep, done, sent,
                   engine, result, closing>>

\* ConnectionManager.send_welcome_message -> send_personal_message: one send to
\* the new connection; a failed send disconnects it and is not re-raised.
send_welcome_message(s) ==
    /\ pc[s] = "welcome_send"
    /\ \E ok \in send_text(s) :
         /\ faults' = Raised(ok, s)
         /\ sent' = [sent EXCEPT ![s] =
                       Append(@, Attempt("welcome", "Connected to Tamagotchi!",
                                         0, ok, FALSE, TRUE))]
         /\ active_connections' =
              IF ok THEN active_connections
              ELSE disconnect(active_connections, s)
         /\ members' = IF ok THEN members ELSE members \ {s}
    /\ pc' = [pc EXCEPT ![s] = "receive"]
    /\ UNCHANGED <<nframes, disp, env, sweep, done, engine, current_state,
                   result, closing>>

\* A loop that ends without its disconnect call.
close_session_keeps(s) ==
    /\ pc[s] = "receive"
    /\ closing' = [closing EXCEPT ![s] = @ + 1]
    /\ pc' = [pc EXCEPT ![s] = "closed"]
    /\ UNCHANGED <<active_connections, members, nframes, disp, env, sweep,
                   done, sent, engine, current_state, result, faults>>

\* The session loop ends: one disconnect call, and the coroutine returns.
close_session(s) ==
    /\ pc[s] = "receive"
    /\ closing' = [closing EXCEPT ![s] = @ + 1]
    /\ active_connections' = disconnect(active_connections, s)
    /\ members' = members \ {s}
    /\ pc' = [pc EXCEPT ![s] = "closed"]
    /\ UNCHANGED <<nframes, disp, env, sweep, done, sent, engine,
                   current_state, result, faults>>

\* handle_websocket: receive_text() raises WebSocketDisconnect, the remote
\* side closed the transport.
remote_close(s) == close_session(s)

\* handle_websocket: receive_text() raises another exception, a read failure.
receive_error(s) == close_session(s)

\* ----------------------------------------------------------- Message Router
\* The dispatch a received frame starts.  after_raise: the session's previous
\* dispatch ended in the generic handler (set by the caller).
NewDispatch(f) ==
    [id |-> nframes + 1, frame |-> f, calls |-> <<>>, collab_raised |-> FALSE,
     status |-> "running", after_raise |-> FALSE]

\* A router that broadcasts what it should send to the originator alone.
Personal_to_all(s, type, message, dsp) ==
    /\ sweep' = [sweep EXCEPT ![s] =
                   IF active_connections = <<>> THEN NoSweep
                   ELSE [on |-> TRUE, type |-> type, message |-> message,
                         cur |-> active_connections[1], idx |-> 1,
                         disconnected |-> <<>>, before |-> active_connections,
                         tried |-> <<>>, gone |-> {}]]
    /\ pc' = [pc EXCEPT ![s] =
                IF active_connections = <<>> THEN "dispatched" ELSE "broadcast"]
    /\ disp' = [disp EXCEPT ![s] = dsp]
    /\ done' = [done EXCEPT ![s] = <<>>]
    /\ UNCHANGED env

\* The router is about to await send_personal_message(envelope, websocket).
Personal(s, type, message, dsp) ==
    /\ env' = [env EXCEPT ![s] = [type |-> type, message |-> message]]
    /\ pc' = [pc EXCEPT ![s] = "send_personal"]
    /\ disp' = [disp EXCEPT ![s] = dsp]
    /\ done' = [done EXCEPT ![s] = <<>>]
    /\ UNCHANGED sweep

\* The router is about to await a collaborator call.
Await(s, label, dsp) ==
    /\ pc' = [pc EXCEPT ![s] = label]
    /\ disp' = [disp EXCEPT ![s] = dsp]
    /\ done' = [done EXCEPT ![s] = <<>>]
    /\ UNCHANGED <<env, sweep>>

\* The broadcasts the router still makes, once it calls the one of this type:
\* broadcast_action_result is followed at once by broadcast_state_update.
BroadcastsFrom(type) ==
    IF type = "action_result" THEN <<"action_result", "state_update">>
    ELSE <<type>>

\* What a broadcast leaves behind when it returns.
Returned(type, before, tried, failed) ==
    [type |-> type, before |-> before, tried |-> tried, failed |-> failed]

\* A broadcast that takes the first connection of the list before it looks
\* whether there is one: on an empty list it raises.
broadcast_first(s, type, message, dsp, finished) ==
    IF active_connections' = <<>>
    THEN /\ sweep' = [sweep EXCEPT ![s] = NoSweep]
         /\ done' = [done EXCEPT ![s] = finished \o
                       [i \in 1..Len(BroadcastsFrom(type)) |->
                          Returned(BroadcastsFrom(type)[i], <<>>, <<>>, <<>>)]]
         /\ pc' = [pc EXCEPT ![s] = "raised"]
         /\ disp' = [disp EXCEPT ![s] = [dsp EXCEPT !.status = "done"]]
    ELSE /\ sweep' = [sweep EXCEPT ![s] =
                        [on |-> TRUE, type |-> type, message |-> message,
                         cur |-> active_connections'[1], idx |-> 1,
                         disconnected |-> <<>>,
                         before |-> active_connections', tried |-> <<>>,
                         gone |-> {c \in Conns :
                                     /\ pc[c] # "connect"
                                     /\ c \notin Range(active_connections')}]]
         /\ done' = [done EXCEPT ![s] = finished]
         /\ pc' = [pc EXCEPT ![s] = "broadcast"]
         /\ disp' = [disp EXCEPT ![s] = dsp]

\* ConnectionManager.broadcast up to its first await.  An empty list: return at
\* once (and so does the broadcast that follows, there is no await between).
\* Otherwise the for loop takes the first element of the list and awaits the
\* send to it; idx is the position the list iterator reads next.  gone: the
\* connections that have left the Registry before this broadcast.
broadcast(s, type, message, dsp, finished) ==
    IF active_connections' = <<>>
    THEN /\ sweep' = [sweep EXCEPT ![s] = NoSweep]
         /\ done' = [done EXCEPT ![s] = finished \o
                       [i \in 1..Len(BroadcastsFrom(type)) |->
                          Returned(BroadcastsFrom(type)[i], <<>>, <<>>, <<>>)]]
         /\ pc' = [pc EXCEPT ![s] = "dispatched"]
         /\ disp' = [disp EXCEPT ![s] = [dsp EXCEPT !.status = "done"]]
    ELSE /\ sweep' = [sweep EXCEPT ![s] =
                        [on |-> TRUE, type |-> type, message |-> message,
                         cur |-> active_connections'[1], idx |-> 1,
                         disconnected |-> <<>>,
                         before |-> active_connections', tried |-> <<>>,
                         gone |-> {c \in Conns :
                                     /\ pc[c] # "connect"
                                     /\ c \notin Range(active_connections')}]]
         /\ done' = [done EXCEPT ![s] = finished]
         /\ pc' = [pc EXCEPT ![s] = "broadcast"]
         /\ disp' = [disp EXCEPT ![s] = dsp]

\* WebSocketHandler.handle_action_message up to its first await.
handle_action_message(s, f, dsp) ==
    IF f.action \in RecognizedActions
    THEN Await(s, "act_call", dsp)
    ELSE /\ broadcast(s, "error", UnknownActionMessage(f.action), dsp, <<>>)
         /\ UNCHANGED env

\* handle_websocket's loop: receive_text() returns a frame and
\* handle_client_message runs up to its first await.
handle_client_message(s, f) ==
    /\ pc[s] = "receive"
    /\ nframes < MaxFrames
    /\ nframes' = nframes + 1
    /\ UNCHANGED <<active_connections, members>>
    /\ LET dsp == [NewDispatch(f) EXCEPT !.after_raise = disp[s].after_raise]
       IN
       CASE f.json = "invalid" ->      \* json.JSONDecodeError
              Personal(s, "error", Text("Invalid JSON format"), dsp)
         [] f.json = "nonobject" ->    \* message.get raises: generic handler
              Personal(s, "error", Text("Internal server error"), dsp)
         [] f.json = "object" /\ f.type = "ping" ->
              Personal(s, "pong", NoMessage, dsp)
         [] f.json = "object" /\ f.type = "get_state" ->
              Await(s, "gs_state", dsp)
         [] f.json = "object" /\ f.type = "action" ->
              handle_action_message(s, f, dsp)
         [] f.json = "object" /\ f.type = "chat" ->
              Await(s, "chat_state", dsp)
         [] OTHER ->
              Personal(s, "error", UnknownTypeMessage(f.type), dsp)
    /\ UNCHANGED <<sent, engine, current_state, result, closing, faults>>

\* A personal send that lets the failure of the transport reach its caller.
send_personal_message_raises(s) ==
    /\ pc[s] = "send_personal"
    /\ \E ok \in send_text(s) :
         /\ faults' = Raised(ok, s)
         /\ sent' = [sent EXCEPT ![s] =
                       Append(@, Attempt(env[s].type, env[s].message,
                                         disp[s].id, ok, FALSE, TRUE))]
         /\ pc' = [pc EXCEPT ![s] = IF ok THEN "dispatched" ELSE "raised"]
    /\ disp' = [disp EXCEPT ![s].status = "done"]
    /\ env' = [env EXCEPT ![s] = NoEnvelope]
    /\ UNCHANGED <<active_connections, members, nframes, sweep, done, engine,
                   current_state, result, closing>>

\* A personal send that leaves a connection registered whose send failed.
send_personal_message_keeps(s) ==
    /\ pc[s] = "send_personal"
    /\ \E ok \in send_text(s) :
         /\ faults' = Raised(ok, s)
         /\ sent' = [sent EXCEPT ![s] =
                       Append(@, Attempt(env[s].type, env[s].message,
                                         disp[s].id, ok, FALSE, TRUE))]
    /\ pc' = [pc EXCEPT ![s] = "dispatched"]
    /\ disp' = [disp EXCEPT ![s].status = "done"]
    /\ env' = [env EXCEPT ![s] = NoEnvelope]
    /\ UNCHANGED <<active_connections, members, nframes, sweep, done, engine,
                   current_state, result, closing>>

\* ConnectionManager.send_personal_message for the router's personal envelope:
\* one send to the originating connection; a failed send disconnects it and is
\* not re-raised.  handle_client_message returns to the loop.
send_personal_message(s) ==
    /\ pc[s] = "send_personal"
    /\ \E ok \in send_text(s) :
         /\ faults' = Raised(ok, s)
         /\ sent' = [sent EXCEPT ![s] =
                       Append(@, Attempt(env[s].type, env[s].message,
                                         disp[s].id, ok, FALSE, TRUE))]
         /\ active_connections' =
              IF ok THEN active_connections
              ELSE disconnect(active_connections, s)
         /\ members' = IF ok THEN members ELSE members \ {s}
    /\ pc' = [pc EXCEPT ![s] = "dispatched"]
    /\ disp' = [disp EXCEPT ![s].status = "done"]
    /\ env' = [env EXCEPT ![s] = NoEnvelope]
    /\ UNCHANGED <<nframes, sweep, done, engine, current_state, result,
                   closing>>

\* A router without the generic handler: the exception reaches the loop.
InternalError_escapes(s, dsp) == Await(s, "raised", dsp)

\* The generic handler of handle_client_message: a collaborator raised, the
\* originating connection gets a personal error envelope.
InternalError(s, dsp) ==
    Personal(s, "error", Text("Internal server error"),
             [dsp EXCEPT !.collab_raised = TRUE])

\* await self.game_engine.get_state() in the get_state branch, in
\* handle_action_message and in handle_chat_message.
get_state(s) ==
    /\ pc[s] \in {"gs_state", "act_state", "chat_state"}
    /\ \E returned \in Call :
         LET dsp == [disp[s] EXCEPT !.calls = Append(@, "get_state")]
         IN  /\ faults' = Raised(returned, s)
             /\ IF returned
                THEN /\ current_state' =
                          [current_state EXCEPT ![s] = Engine_get_state]
                     /\ CASE pc[s] = "gs_state" ->
                               Personal(s, "state_update",
                                        StateData(current_state'[s]), dsp)
                          [] pc[s] = "act_state" -> Await(s, "act_llm", dsp)
                          [] pc[s] = "chat_state" -> Await(s, "chat_llm", dsp)
                ELSE /\ InternalError(s, dsp)
                     /\ UNCHANGED current_state
    /\ UNCHANGED <<active_connections, members, nframes, sent, engine, result,
                   closing>>

\* handle_action_message: result = await self.game_engine.<action>().  The
\* State Engine applies the action to the pet and returns its ActionResult.
engine_action(s) ==
    /\ pc[s] = "act_call"
    /\ \E returned \in Call :
         LET dsp == [disp[s] EXCEPT !.calls = Append(@, disp[s].frame.action)]
         IN  /\ faults' = Raised(returned, s)
             /\ IF returned
                THEN /\ engine' = Engine_apply(engine)
                     /\ result' = [result EXCEPT ![s] = Engine_result(engine')]
                     /\ Await(s, "act_state", dsp)
                ELSE /\ InternalError(s, dsp)
                     /\ UNCHANGED <<engine, result>>
    /\ UNCHANGED <<active_connections, members, nframes, sent, current_state,
                   closing>>

\* llm_response = await self.llm_client.get_response(...), then the first
\* broadcast of the dispatch up to its first await.
get_response(s) ==
    /\ pc[s] \in {"act_llm", "chat_llm"}
    /\ UNCHANGED <<active_connections, members>>
    /\ \E returned \in Call :
         LET dsp == [disp[s] EXCEPT !.calls = Append(@, "get_response")]
         IN  /\ faults' = Raised(returned, s)
             /\ IF returned
                THEN /\ IF pc[s] = "act_llm"
                        THEN broadcast(s, "action_result",
                                 ActionResultMessage(
                                     disp[s].frame.action, result[s],
                                     Llm_get_response(current_state[s],
                                                      disp[s].frame.action)),
                                 dsp, <<>>)
                        ELSE broadcast(s, "chat_message",
                                 ChatMessage(
                                     Llm_get_response(current_state[s], "talk"),
                                     Mood(current_state[s])),
                                 dsp, <<>>)
                     /\ UNCHANGED env
                ELSE InternalError(s, dsp)
    /\ UNCHANGED <<nframes, sent, engine, current_state, result, closing>>

\* ---------------------------------------------------------- Broadcast Channel
\* for connection in self.active_connections: the list iterator holds a
\* position into the list itself, not into a copy.  It has a next element
\* while the position is inside the list as it is now, and yields the element
\* that is at the position now.
iter_has_next(sw) == sw.idx < Len(active_connections)
iter_next(sw) == active_connections[sw.idx + 1]


\* A send loop that disconnects a connection as soon as its send fails.
broadcast_send_eager(s) ==
    /\ pc[s] = "broadcast"
    /\ \E ok \in send_text(sweep[s].cur) :
         LET sw == sweep[s]
             c == sw.cur
             disconnected == IF ok THEN sw.disconnected
                             ELSE Append(sw.disconnected, c)
             tried == Append(sw.tried, c)
         IN  /\ faults' = Raised(ok, c)
             /\ sent' = [sent EXCEPT ![c] =
                           Append(@, Attempt(sw.type, sw.message, disp[s].id,
                                             ok, TRUE, c \in Range(sw.before)))]
             /\ IF iter_has_next(sw)
                THEN /\ sweep' = [sweep EXCEPT ![s] =
                                    [sw EXCEPT
                                       !.cur = iter_next(sw),
                                       !.idx = sw.idx + 1,
                                       !.disconnected = disconnected,
                                       !.tried = tried]]
                     /\ active_connections' =
                          IF ok THEN active_connections
                          ELSE disconnect(active_connections, c)
                     /\ members' = IF ok THEN members ELSE members \ {c}
                     /\ UNCHANGED <<pc, disp, done>>
                ELSE /\ active_connections' =
                          disconnect_all(active_connections, disconnected)
                     /\ members' = members \ Range(disconnected)
                     /\ LET finished ==
                              Append(done[s],
                                     Returned(sw.type, sw.before, tried,
                                              disconnected))
                        IN  IF sw.type = "action_result"
                            THEN broadcast(s, "state_update",
                                           StateData(current_state[s]),
                                           disp[s], finished)
                            ELSE /\ sweep' = [sweep EXCEPT ![s] = NoSweep]
                                 /\ done' = [done EXCEPT ![s] = finished]
                                 /\ pc' = [pc EXCEPT ![s] = "dispatched"]
                                 /\ disp' = [disp EXCEPT ![s].status = "done"]
    /\ UNCHANGED <<nframes, env, engine, current_state, result, closing>>

\* One turn of the for loop of ConnectionManager.broadcast: the awaited send to
\* the connection the loop holds completes or raises; then the list iterator
\* reads position idx of the list as it is now.  When the iterator is
\* exhausted the collected connections are disconnected and broadcast returns:
\* the router goes on to its next broadcast or back to the session loop.
broadcast_send(s) ==
    /\ pc[s] = "broadcast"
    /\ \E ok \in send_text(sweep[s].cur) :
         LET sw == sweep[s]
             c == sw.cur
             disconnected == IF ok THEN sw.disconnected
                             ELSE Append(sw.disconnected, c)
             tried == Append(sw.tried, c)
         IN  /\ faults' = Raised(ok, c)
             /\ sent' = [sent EXCEPT ![c] =
                           Append(@, Attempt(sw.type, sw.message, disp[s].id,
                                             ok, TRUE, c \in Range(sw.before)))]
             /\ IF iter_has_next(sw)
                THEN /\ sweep' = [sweep EXCEPT ![s] =
                                    [sw EXCEPT
                                       !.cur = iter_next(sw),
                                       !.idx = sw.idx + 1,
                                       !.disconnected = disconnected,
                                       !.tried = tried]]
                     /\ UNCHANGED <<active_connections, members, pc, disp,
                                    done>>
                ELSE /\ active_connections' =
                          disconnect_all(active_connections, disconnected)
                     /\ members' = members \ Range(disconnected)
                     /\ LET finished ==
                              Append(done[s],
                                     Returned(sw.type, sw.before, tried,
                                              disconnected))
                        IN  IF sw.type = "action_result"
                            THEN broadcast(s, "state_update",
                                           StateData(current_state[s]),
                                           disp[s], finished)
                            ELSE /\ sweep' = [sweep EXCEPT ![s] = NoSweep]
                                 /\ done' = [done EXCEPT ![s] = finished]
                                 /\ pc' = [pc EXCEPT ![s] = "dispatched"]
                                 /\ disp' = [disp EXCEPT ![s].status = "done"]
    /\ UNCHANGED <<nframes, env, engine, current_state, result, closing>>

\* A loop that puts its connection back into the list when it is not there.
loop_registers(s) ==
    /\ pc[s] = "dispatched"
    /\ pc' = [pc EXCEPT ![s] = "receive"]
    /\ disp' = [disp EXCEPT ![s] =
                  [NoDispatch EXCEPT !.after_raise = disp[s].collab_raised]]
    /\ done' = [done EXCEPT ![s] = <<>>]
    /\ sent' = [c \in Conns |->
                  SelectSeq(sent[c], LAMBDA e : e.d # disp[s].id)]
    /\ current_state' = [current_state EXCEPT ![s] = NoSnapshot]
    /\ result' = [result EXCEPT ![s] = NoResult]
    /\ active_connections' =
          IF s \in Range(active_connections) THEN active_connections
          ELSE Append(active_connections, s)
    /\ members' = members \cup {s}
    /\ UNCHANGED <<nframes, env, sweep, engine, closing, faults>>

\* A session loop that handles one frame: after the dispatch the coroutine
\* returns instead of receiving again.
loop_returns(s) ==
    /\ pc[s] = "dispatched"
    /\ pc' = [pc EXCEPT ![s] = "raised"]
    /\ disp' = [disp EXCEPT ![s] =
                  [NoDispatch EXCEPT !.after_raise = disp[s].collab_raised]]
    /\ done' = [done EXCEPT ![s] = <<>>]
    /\ sent' = [c \in Conns |->
                  SelectSeq(sent[c], LAMBDA e : e.d # disp[s].id)]
    /\ current_state' = [current_state EXCEPT ![s] = NoSnapshot]
    /\ result' = [result EXCEPT ![s] = NoResult]
    /\ UNCHANGED <<active_connections, members, nframes, env, sweep, engine,
                   closing, faults>>

\* handle_websocket: handle_client_message has returned and the while loop
\* goes back to receive_text().  The record of the finished dispatch, which
\* only the properties read, is dropped here.
loop(s) ==
    /\ pc[s] = "dispatched"
    /\ pc' = [pc EXCEPT ![s] = "receive"]
    /\ disp' = [disp EXCEPT ![s] =
                  [NoDispatch EXCEPT !.after_raise = disp[s].collab_raised]]
    /\ done' = [done EXCEPT ![s] = <<>>]
    /\ sent' = [c \in Conns |->
                  SelectSeq(sent[c], LAMBDA e : e.d # disp[s].id)]
    /\ current_state' = [current_state EXCEPT ![s] = NoSnapshot]
    /\ result' = [result EXCEPT ![s] = NoResult]
    /\ UNCHANGED <<active_connections, members, nframes, env, sweep, engine,
                   closing, faults>>

\* --------------------------------------------------------------- the system
Next ==
    \/ \E s \in Conns : connect(s)
    \/ \E s \in Conns : welcome_get_state(s)
    \/ \E s \in Conns : send_welcome_message(s)
    \/ \E s \in Conns : remote_close(s)
    \/ \E s \in Conns : receive_error(s)
    \/ \E s \in Conns : \E f \in Frames : handle_client_message(s, f)
    \/ \E s \in Conns : send_personal_message(s)
    \/ \E s \in Conns : get_state(s)
    \/ \E s \in Conns : engine_action(s)
    \/ \E s \in Conns : get_response(s)
    \/ \E s \in Conns : broadcast_send(s)
    \/ \E s \in Conns : loop(s)

Spec == Init /\ [][Next]_vars

\* The steps the event loop makes a session take once the call it awaits has
\* completed: every step but the arrival of a connection or of a frame and
\* the end of the transport.
SessionStep(s) ==
    \/ welcome_get_state(s)
    \/ send_welcome_message(s)
    \/ send_personal_message(s)
    \/ get_state(s)
    \/ engine_action(s)
    \/ get_response(s)
    \/ broadcast_send(s)
    \/ loop(s)

\* The runs checked for termination: those in which the sessions receive
\* MaxFairFrames frames in all.
MaxFairFrames == 1

\* The state after construction, with the frames still to come counted down
\* to MaxFairFrames.
FairInit ==
    /\ active_connections = <<>>
    /\ members = {}
    /\ pc = [s \in Conns |-> "connect"]
    /\ nframes = MaxFrames - MaxFairFrames
    /\ disp = [s \in Conns |-> NoDispatch]
    /\ env = [s \in Conns |-> NoEnvelope]
    /\ sweep = [s \in Conns |-> NoSweep]
    /\ done = [s \in Conns |-> <<>>]
    /\ sent = [c \in Conns |-> <<>>]
    /\ engine \in {[version |-> 0, pet |-> b] : b \in BOOLEAN}
    /\ current_state = [s \in Conns |-> NoSnapshot]
    /\ result = [s \in Conns |-> NoResult]
    /\ closing = [s \in Conns |-> 0]
    /\ faults = 0

\* What every step of a session changes: the await it is suspended on, the
\* sends made so far, or the Registry.
progress ==
    <<pc, active_connections, closing,
      [c \in Conns |-> Len(sent[c])], [s \in Conns |-> sweep[s].tried]>>

\* Fair scheduling: the event loop resumes every coroutine whose awaited call
\* has completed, and a transport that stays open for no further frame
\* reports its close or its read failure to the receive_text() awaiting it.
FairSpec ==
    /\ FairInit /\ [][Next]_vars
    /\ \A s \in Conns : WF_progress(SessionStep(s))
    /\ \A s \in Conns : WF_progress(remote_close(s) \/ receive_error(s))

\* ------------------------------------------------------------- observations
\* The send attempts of dispatch d to connection c in a log, in order.
AttemptsIn(log, c, d) == SelectSeq(log[c], LAMBDA e : e.d = d)
AttemptsOf(c, d) == AttemptsIn(sent, c, d)
Types(attempts) == [i \in 1..Len(attempts) |-> attempts[i].type]

\* How often connection c occurs in a list.
Count(l, c) == Cardinality({i \in 1..Len(l) : l[i] = c})

\* Session s has finished a dispatch of a frame of this type that went through
\* without a collaborator raising.
Dispatched(s, type) ==
    /\ pc[s] = "dispatched"
    /\ disp[s].frame.json = "object"
    /\ disp[s].frame.type = type
    /\ ~disp[s].collab_raised

\* The connections that were registered when the first broadcast of the
\* dispatch of s started and are registered still: the peers connected all
\* through the broadcasts of the dispatch.
Peers(s) == Range(done[s][1].before) \cap Range(active_connections)

\* C1: a dispatched recognized action yields, to every connected peer and to
\* the sender, an action_result and then a state_update and nothing else of
\* that dispatch.
C1_ResultThenStateToEveryPeer ==
    \A s \in Conns :
        (Dispatched(s, "action") /\ disp[s].frame.action \in RecognizedActions)
        => \A c \in Peers(s) :
              Types(AttemptsOf(c, disp[s].id)) =
                  <<"action_result", "state_update">>

\* C4: in every broadcast that has returned, no member of the Registry at its
\* start was sent the envelope twice, and every such member that is registered
\* still or failed in this broadcast got exactly one delivery attempt: the
\* deregistration of one connection makes the sweep skip no other.
C4_NoMemberSkipped ==
    \A s \in Conns : \A k \in 1..Len(done[s]) :
        LET r == done[s][k]
        IN  \A c \in Range(r.before) :
              /\ Count(r.tried, c) <= 1
              /\ (c \in Range(active_connections) \/ c \in Range(r.failed))
                 => Count(r.tried, c) = 1

\* The attempts of dispatch d to send connection c an envelope of this type.
EnvelopesIn(log, c, d, type) ==
    SelectSeq(log[c], LAMBDA e : e.d = d /\ e.type = type)

\* This step makes a broadcast of session s return.
BroadcastReturns(s) == pc[s] = "broadcast" /\ Len(done'[s]) > Len(done[s])

\* C2: when a broadcast returns in which exactly one of the N connections
\* registered at its start failed on send, and no connection but that one has
\* left the Registry and none has joined, then each of the N-1 others received
\* exactly one copy, the failing one is absent from the Registry and the count
\* has dropped by exactly 1.
C2_OneFailedSend ==
    [][\A s \in Conns :
         BroadcastReturns(s) =>
           LET r == done'[s][Len(done[s]) + 1]
           IN  (/\ Len(r.failed) = 1
                /\ r.failed[1] \in Range(r.before)
                /\ Range(active_connections') \cup Range(r.failed)
                      = Range(r.before)) =>
                 /\ \A c \in Range(r.before) \ Range(r.failed) :
                       LET got == EnvelopesIn(sent', c, disp[s].id, r.type)
                       IN  Len(got) = 1 /\ got[1].ok
                 /\ r.failed[1] \notin Range(active_connections')
                 /\ Len(active_connections') = Len(r.before) - 1]_vars

\* C3: a connection gets one welcome envelope, and no envelope of a broadcast
\* that started while it was registered reaches it before the welcome was sent.
C3_WelcomeFirst ==
    \A c \in Conns :
        /\ Cardinality({i \in 1..Len(sent[c]) : sent[c][i].type = "welcome"})
             = IF pc[c] \in {"connect", "welcome_state", "welcome_send", "raised"}
               THEN 0 ELSE 1
        /\ \A i \in 1..Len(sent[c]) :
              (sent[c][i].bc /\ sent[c][i].present /\ sent[c][i].ok)
              => \E j \in 1..(i - 1) : sent[c][j].type = "welcome"

\* C5: a session enters Closed with exactly one disconnect call made by its
\* loop ending and its connection out of the Registry, and a Closed session
\* stays Closed and neither receives nor dispatches another frame.
C5_CloseDeregistersOnce ==
    [][\A s \in Conns :
         /\ pc'[s] = "closed" => (closing'[s] = 1 /\ pc[s] \in {"receive", "closed"}
                                  /\ s \notin Range(active_connections'))
         /\ pc'[s] # "closed" => closing'[s] = 0
         /\ pc[s] = "closed" => (pc'[s] = "closed" /\ disp'[s] = disp[s])]_vars

\* C5 witness: a session is Closed whose connection had been removed from the
\* Registry before, when the welcome send to it failed.
C5_Witness ==
    \E s \in Conns :
        /\ pc[s] = "closed"
        /\ closing[s] = 1
        /\ \E i \in 1..Len(sent[s]) :
              sent[s][i].type = "welcome" /\ ~sent[s][i].ok

\* C6: after any sequence of register and deregister calls the count is the
\* number of distinct connections registered and not deregistered since, the
\* list holds exactly those, each once; and one more deregister of any
\* connection, present or absent, has the effect of set removal, a second one
\* has no further effect.
C6_CountIsMembers ==
    /\ get_connection_count = Cardinality(members)
    /\ Range(active_connections) = members
    /\ \A c \in Conns :
          LET once == disconnect(active_connections, c)
          IN  /\ Range(once) = members \ {c}
              /\ Len(once) = Cardinality(members \ {c})
              /\ disconnect(once, c) = once
              /\ c \notin members => once = active_connections

\* C6 witness: both connections were registered, the first was deregistered
\* twice (by the failed welcome send and again by its session closing), and
\* the count is 1.
C6_Witness ==
    /\ pc[1] = "closed"
    /\ \E i \in 1..Len(sent[1]) : sent[1][i].type = "welcome" /\ ~sent[1][i].ok
    /\ members = {2}
    /\ get_connection_count = 1

\* C7: a dispatched ping yields one pong, sent to the sender alone: no other
\* connection is sent anything by that dispatch and no collaborator is called.
C7_PingPong ==
    \A s \in Conns :
        Dispatched(s, "ping") =>
            /\ Types(AttemptsOf(s, disp[s].id)) = <<"pong">>
            /\ ~AttemptsOf(s, disp[s].id)[1].bc
            /\ \A c \in Conns \ {s} : AttemptsOf(c, disp[s].id) = <<>>
            /\ disp[s].calls = <<>>
            /\ done[s] = <<>>

\* C7 witness: a ping was dispatched and its pong delivered while another
\* peer was connected.
C7_Witness ==
    \E s \in Conns :
        /\ Dispatched(s, "ping")
        /\ Len(AttemptsOf(s, disp[s].id)) = 1
        /\ AttemptsOf(s, disp[s].id)[1].ok
        /\ members = Conns

\* C8: a dispatched action message with an unrecognized or missing action name
\* yields one error envelope by broadcast to every connected peer and nothing
\* else, and calls neither the State Engine nor the Response Generator.
C8_UnknownActionErrorToAll ==
    \A s \in Conns :
        (Dispatched(s, "action") /\ disp[s].frame.action \notin RecognizedActions)
        => /\ disp[s].calls = <<>>
           /\ Len(done[s]) = 1 /\ done[s][1].type = "error"
           /\ \A c \in Conns : \A i \in 1..Len(AttemptsOf(c, disp[s].id)) :
                 LET e == AttemptsOf(c, disp[s].id)[i]
                 IN  e.type = "error" /\ e.bc
           /\ \A c \in Peers(s) :
                 Types(AttemptsOf(c, disp[s].id)) = <<"error">>

\* The step of session s that ends the dispatch of a frame that is no JSON.
NonJsonSend(s) ==
    /\ pc[s] = "send_personal"
    /\ pc'[s] # "send_personal"
    /\ disp[s].frame.json = "invalid"

\* What every dispatch of non-JSON input does, whatever the send does: one
\* error envelope for the sender and none for another connection, no
\* collaborator call, and the dispatch returns to the loop.
NonJsonEnvelope(s) ==
    LET a == AttemptsIn(sent', s, disp[s].id)
    IN  /\ Len(a) = 1
        /\ a[1].type = "error" /\ a[1].message = Text("Invalid JSON format")
        /\ ~a[1].bc
        /\ \A c \in Conns \ {s} : sent'[c] = sent[c]
        /\ disp[s].calls = <<>>
        /\ pc'[s] = "dispatched"

\* C9 as stated: dispatching non-JSON input yields one error envelope to the
\* sender only and leaves the Registry membership unchanged.
C9_RegistryUnchanged ==
    [][\A s \in Conns :
         NonJsonSend(s) =>
            /\ NonJsonEnvelope(s)
            /\ active_connections' = active_connections]_vars

\* C9, amended: dispatching non-JSON input makes one attempt to send an error
\* envelope to the sender and none to another connection, does not raise, and
\* leaves the Registry membership unchanged if that send succeeds; if the
\* send fails, the sender and no other connection is deregistered.
C9_NonJsonErrorToSender ==
    [][\A s \in Conns :
         /\ (pc[s] = "receive" /\ pc'[s] = "send_personal"
             /\ disp'[s].frame.json = "invalid")
            => (active_connections' = active_connections /\ sent' = sent)
         /\ NonJsonSend(s) =>
              /\ NonJsonEnvelope(s)
              /\ active_connections' =
                    IF AttemptsIn(sent', s, disp[s].id)[1].ok
                    THEN active_connections
                    ELSE disconnect(active_connections, s)]_vars

\* C9 witness: a non-JSON frame was dispatched while both connections were
\* registered, the send of its error envelope failed, and the sender alone
\* has left the Registry.
C9_Witness ==
    \E s \in Conns :
        /\ pc[s] = "dispatched"
        /\ disp[s].frame.json = "invalid"
        /\ Len(AttemptsOf(s, disp[s].id)) = 1
        /\ ~AttemptsOf(s, disp[s].id)[1].ok
        /\ members = Conns \ {s}

\* The awaits of a dispatch on the State Engine and the Response Generator.
CollaboratorAwaits ==
    {"gs_state", "act_call", "act_state", "act_llm", "chat_state", "chat_llm"}

\* This step resumes session s from a collaborator call that raised.
CollaboratorRaises(s) ==
    /\ pc[s] \in CollaboratorAwaits
    /\ pc'[s] # pc[s]
    /\ faults' = faults + 1

\* C10: when a collaborator raises during a dispatch, the router goes on to
\* send the originator a personal error envelope with the generic message;
\* that send is the only one of the dispatch, whatever its outcome the
\* dispatch returns to the loop, and the loop goes back to receiving, the
\* session still Open.
C10_CollaboratorFailureContained ==
    [][\A s \in Conns :
         /\ CollaboratorRaises(s) =>
              /\ disp[s].frame.type \in {"action", "chat", "get_state"}
              /\ pc'[s] = "send_personal"
              /\ env'[s] = [type |-> "error",
                            message |-> Text("Internal server error")]
              /\ disp'[s].collab_raised
              /\ done'[s] = <<>>
              /\ \A c \in Conns : AttemptsIn(sent', c, disp[s].id) = <<>>
         /\ (disp[s].collab_raised /\ pc'[s] # pc[s]) =>
              \/ /\ pc[s] = "send_personal" /\ pc'[s] = "dispatched"
                 /\ Types(AttemptsIn(sent', s, disp[s].id)) = <<"error">>
                 /\ ~AttemptsIn(sent', s, disp[s].id)[1].bc
                 /\ \A c \in Conns \ {s} :
                       AttemptsIn(sent', c, disp[s].id) = <<>>
              \/ /\ pc[s] = "dispatched" /\ pc'[s] = "receive"
                 /\ disp'[s].after_raise]_vars

\* C10 witness: a session whose earlier dispatch ended in a collaborator
\* raising has received and dispatched another frame.
C10_Witness ==
    \E s \in Conns :
        /\ disp[s].after_raise
        /\ pc[s] = "dispatched"
        /\ disp[s].frame.json = "object"

\* This step is a personal send to the connection of session s: the welcome or
\* an envelope of the router.
PersonalSend(s) ==
    /\ pc[s] \in {"welcome_send", "send_personal"}
    /\ pc'[s] # pc[s]

\* C11: a personal send makes one send attempt to its target; when that
\* fails the target is deregistered, no other connection is removed and the
\* caller goes on as after a send that succeeded; when it succeeds the
\* Registry is left as it is.
C11_FailedPersonalSendDeregisters ==
    [][\A s \in Conns :
         PersonalSend(s) =>
            LET a == sent'[s][Len(sent'[s])]
            IN  /\ Len(sent'[s]) = Len(sent[s]) + 1
                /\ ~a.bc
                /\ \A c \in Conns \ {s} : sent'[c] = sent[c]
                /\ pc'[s] = IF pc[s] = "welcome_send" THEN "receive"
                            ELSE "dispatched"
                /\ \A c \in Conns \ {s} :
                      Count(active_connections', c) = Count(active_connections, c)
                /\ IF a.ok THEN active_connections' = active_connections
                   ELSE s \notin Range(active_connections')]_vars

\* C11 witness: the pong of a ping could not be sent; the sender is out of the
\* Registry, the other connection is in it, and the dispatch has returned.
C11_Witness ==
    \E s \in Conns :
        /\ Dispatched(s, "ping")
        /\ ~AttemptsOf(s, disp[s].id)[1].ok
        /\ active_connections = <<CHOOSE c \in Conns : c # s>>

\* This step is a turn of the send loop of the broadcast of session s.
BroadcastTurn(s) == pc[s] = "broadcast" /\ sweep'[s] # sweep[s]

\* C12: a broadcast deregisters nothing between two of its own send attempts:
\* while its sweep goes on the Registry is left as it is, and when the sweep
\* has ended, all the members whose send failed in it, and no others, are
\* deregistered.
C12_DeregisterAfterSweep ==
    [][\A s \in Conns :
         BroadcastTurn(s) =>
            IF BroadcastReturns(s)
            THEN LET r == done'[s][Len(done[s]) + 1]
                 IN  /\ \A c \in Range(r.failed) :
                           c \notin Range(active_connections')
                     /\ \A c \in Conns \ Range(r.failed) :
                           Count(active_connections', c)
                              = Count(active_connections, c)
                     /\ \A c \in Conns :
                           (\E i \in 1..Len(sent'[c]) :
                               /\ sent'[c][i].d = disp[s].id
                               /\ sent'[c][i].type = r.type
                               /\ sent'[c][i].bc
                               /\ ~sent'[c][i].ok)
                           <=> c \in Range(r.failed)
            ELSE /\ active_connections' = active_connections
                 /\ Len(sweep'[s].tried) = Len(sweep[s].tried) + 1]_vars

\* C12 witness: a sweep is going on in which a send has failed, and the
\* connection it failed for is registered still.
C12_Witness ==
    \E s \in Conns :
        /\ sweep[s].on
        /\ sweep[s].disconnected # <<>>
        /\ sweep[s].disconnected[1] \in Range(active_connections)

\* C13: a broadcast that finds no connection registered makes no send
\* attempt, leaves the Registry empty and returns: the dispatch it belongs to
\* goes on and returns to the session loop.
C13_EmptyBroadcast ==
    [][\A s \in Conns :
         \A k \in (Len(done[s]) + 1)..Len(done'[s]) :
            LET r == done'[s][k]
            IN  r.before = <<>> =>
                  /\ r.tried = <<>> /\ r.failed = <<>>
                  /\ active_connections' = <<>>
                  /\ \A c \in Conns :
                        EnvelopesIn(sent', c, disp'[s].id, r.type) = <<>>
                  /\ pc'[s] = "dispatched"
                  /\ ~sweep'[s].on]_vars

\* C13 witness: a dispatch has returned whose broadcast found the Registry
\* empty, and it is empty still.
C13_Witness ==
    \E s \in Conns :
        /\ pc[s] = "dispatched"
        /\ done[s] # <<>>
        /\ done[s][1].before = <<>>
        /\ get_connection_count = 0

\* C14: no failure ends a session in an exception that leaves
\* handle_websocket, and no session that has ended leaves its connection in
\* the Registry.
C14_NothingEscapes ==
    \A s \in Conns :
        /\ pc[s] # "raised"
        /\ pc[s] = "closed" => s \notin Range(active_connections)

\* C15: a registered connection is delivered a state_update whose snapshot
\* holds the effect of an action invocation (the invocations are numbered by
\* the version they make) only after it was delivered the action_result of
\* that invocation.  The invocations looked at are those of the dispatches that
\* have not returned to their loop.
C15_StateAfterResult ==
    \A c \in Range(active_connections) : \A i \in 1..Len(sent[c]) :
        LET e == sent[c][i]
        IN  (e.type = "state_update" /\ e.ok /\ ~e.message.null) =>
              \A t \in Conns :
                 (/\ result[t] # NoResult
                  /\ result[t].stat_changes.to <= e.message.version) =>
                    \E j \in 1..(i - 1) :
                       /\ sent[c][j].type = "action_result"
                       /\ sent[c][j].ok
                       /\ sent[c][j].message.stat_changes
                             = result[t].stat_changes

\* C16: a dispatched get_state message makes one call, the snapshot read of
\* the State Engine, and one send: a state_update envelope with that
\* snapshot, its data null when there is no pet, to the originating
\* connection; no other connection is sent anything by that dispatch, and
\* nothing is broadcast.
C16_GetStateReply ==
    \A s \in Conns :
        Dispatched(s, "get_state") =>
            /\ disp[s].calls = <<"get_state">>
            /\ Types(AttemptsOf(s, disp[s].id)) = <<"state_update">>
            /\ LET a == AttemptsOf(s, disp[s].id)[1]
               IN  /\ ~a.bc
                   /\ a.message.null = ~engine.pet
                   /\ ~a.message.null =>
                         /\ a.message.version = current_state[s].version
                         /\ a.message.version <= engine.version
            /\ \A c \in Conns \ {s} : AttemptsOf(c, disp[s].id) = <<>>
            /\ done[s] = <<>>

\* C16 witness: a get_state message was answered with null data, there being
\* no pet, while both connections were registered.
C16_Witness ==
    \E s \in Conns :
        /\ Dispatched(s, "get_state")
        /\ AttemptsOf(s, disp[s].id)[1].ok
        /\ AttemptsOf(s, disp[s].id)[1].message.null
        /\ members = Conns

\* Session s has finished the dispatch of a well-formed message whose type
\* the router does not know.
DispatchedUnknownType(s) ==
    /\ pc[s] = "dispatched"
    /\ disp[s].frame.json = "object"
    /\ disp[s].frame.type \notin {"ping", "get_state", "action", "chat"}

\* C17: a dispatched message of an unknown or missing type yields one error
\* envelope that names the type, sent to the originating connection alone;
\* nothing is broadcast and no collaborator is called.
C17_UnknownTypeErrorToSender ==
    \A s \in Conns :
        DispatchedUnknownType(s) =>
            /\ disp[s].calls = <<>>
            /\ ~disp[s].collab_raised
            /\ Types(AttemptsOf(s, disp[s].id)) = <<"error">>
            /\ LET a == AttemptsOf(s, disp[s].id)[1]
               IN  /\ ~a.bc
                   /\ a.message.text = "Unknown message type: "
                   /\ a.message.name = disp[s].frame.type
            /\ \A c \in Conns \ {s} : AttemptsOf(c, disp[s].id) = <<>>
            /\ done[s] = <<>>

\* C17 witness: a message without a type was answered with the error
\* envelope while both connections were registered.
C17_Witness ==
    \E s \in Conns :
        /\ DispatchedUnknownType(s)
        /\ disp[s].frame.type = None
        /\ AttemptsOf(s, disp[s].id)[1].ok
        /\ members = Conns

\* C18: a dispatched chat message reads the snapshot, asks the Response
\* Generator for one narrative with the action "talk", and broadcasts one
\* chat_message envelope with that narrative and the mood of the snapshot
\* (the neutral mood when there is none): every connected peer is sent it
\* once, nothing else is sent, and the State Engine is not asked to change
\* the pet.
C18_ChatToAll ==
    \A s \in Conns :
        Dispatched(s, "chat") =>
            /\ disp[s].calls = <<"get_state", "get_response">>
            /\ Len(done[s]) = 1 /\ done[s][1].type = "chat_message"
            /\ \A c \in Conns : \A i \in 1..Len(AttemptsOf(c, disp[s].id)) :
                  LET e == AttemptsOf(c, disp[s].id)[i]
                  IN  /\ e.type = "chat_message" /\ e.bc
                      /\ e.message.response =
                            Llm_get_response(current_state[s], "talk")
                      /\ e.message.mood =
                            IF engine.pet THEN current_state[s].current_mood
                            ELSE "neutral"
            /\ \A c \in Peers(s) :
                  Types(AttemptsOf(c, disp[s].id)) = <<"chat_message">>

\* C19: no connection is in the list more than once, and no broadcast, running
\* or returned, has made more than one send attempt to the same connection.
C19_AtMostOnce ==
    \A c \in Conns :
        /\ Count(active_connections, c) <= 1
        /\ \A s \in Conns :
              /\ Count(sweep[s].tried, c) <= 1
              /\ sweep[s].on => sweep[s].cur \notin Range(sweep[s].tried)
              /\ \A k \in 1..Len(done[s]) :
                    /\ Count(done[s][k].tried, c) <= 1
                    /\ Len(SelectSeq(sent[c],
                              LAMBDA e : /\ e.d = disp[s].id /\ e.bc
                                         /\ e.type = done[s][k].type)) <= 1

\* C19 witness: a broadcast over both connections has returned, each was sent
\* the envelope, and both are registered still.
C19_Witness ==
    \E s \in Conns :
        /\ done[s] # <<>>
        /\ Len(done[s][1].tried) = NConn
        /\ done[s][1].failed = <<>>
        /\ get_connection_count = NConn

\* C20: a connection that has been removed from the Registry is never
\* registered again; a broadcast sends nothing to a connection that was
\* removed before the broadcast started; and a session that is Closed stays
\* Closed and dispatches no further frame.
C20_RemovalPermanent ==
    [][\A c \in Conns :
         /\ Removed(c) => Removed(c)'
         /\ \A s \in Conns :
               /\ (sweep'[s].on /\ sweep'[s].tried = <<>>
                   /\ sweep'[s] # sweep[s]) =>
                     sweep'[s].gone = {x \in Conns : Removed(x)'}
               /\ (sweep'[s].on /\ c \in sweep'[s].gone) =>
                     /\ sweep'[s].cur # c
                     /\ c \notin Range(sweep'[s].tried)
                     /\ c \notin Range(sweep'[s].before)
         /\ pc[c] = "closed" =>
               (pc'[c] = "closed" /\ disp'[c] = disp[c] /\ ~sweep'[c].on)]_vars

\* C20 witness: a broadcast is running that started after a connection, once
\* registered and welcomed, had its session Closed.
C20_Witness ==
    \E s \in Conns : \E c \in Conns :
        /\ sweep[s].on
        /\ c \in sweep[s].gone
        /\ pc[c] = "closed"
        /\ sent[c] # <<>>

\* C21: the success, message and stat_changes of every action_result
\* envelope are those of the ActionResult the State Engine returned to the
\* dispatch that sends the envelope: the change from the version before its
\* own action to the version after it, whatever other dispatches have done to
\* the pet since; and no two dispatches hold the same ActionResult.
C21_ResultOfOwnCall ==
    \A s \in Conns :
        /\ result[s] # NoResult =>
              /\ result[s].stat_changes.to = result[s].stat_changes.from + 1
              /\ result[s].stat_changes.to <= engine.version
              /\ result[s].message = <<"done", result[s].stat_changes.to>>
              /\ result[s].success = engine.pet
              /\ disp[s].calls # <<>>
              /\ disp[s].calls[1] = disp[s].frame.action
              /\ \A t \in Conns \ {s} : result[t] # result[s]
        /\ \A c \in Conns : \A i \in 1..Len(sent[c]) :
              LET e == sent[c][i]
              IN  (e.type = "action_result" /\ e.d = disp[s].id) =>
                     /\ result[s] # NoResult
                     /\ e.message.success = result[s].success
                     /\ e.message.message = result[s].message
                     /\ e.message.stat_changes = result[s].stat_changes
                     /\ e.message.action = disp[s].frame.action

\* C21 witness: a connection was delivered the action_result of one dispatch
\* after the action of another dispatch had changed the pet again.
C21_Witness ==
    \E s \in Conns : \E c \in Conns : \E i \in 1..Len(sent[c]) :
        /\ sent[c][i].type = "action_result"
        /\ sent[c][i].ok
        /\ sent[c][i].d = disp[s].id
        /\ sent[c][i].message.stat_changes.to < engine.version

\* C22: when the dispatch of an action whose State Engine operation has
\* returned is over, a state_update broadcast of that dispatch has been made,
\* also when the snapshot read or the Response Generator call that follows
\* the operation raised.
C22_StateUpdateAfterMutation ==
    \A s \in Conns :
        (pc[s] = "dispatched" /\ result[s] # NoResult)
        => \E k \in 1..Len(done[s]) : done[s][k].type = "state_update"

\* The awaits of a session that is in its receive loop or on its way into it
\* with the welcome under way.
InLoop ==
    {"welcome_send", "receive", "send_personal", "gs_state", "act_call",
     "act_state", "act_llm", "chat_state", "chat_llm", "broadcast",
     "dispatched"}

\* C23: under fair scheduling a session in its loop, whose receive reports
\* the close or a read failure once no further frame arrives, gets to the end
\* of its loop, and from then on it stays ended and its connection is not in
\* the Registry; and a step that is not the end of the session's own loop and
\* removes the connection of a session in its loop from the Registry (a send
\* to it failed) leaves that session in its loop.
C23_LoopEndsAndDeregisters ==
    /\ \A s \in Conns :
          (pc[s] \in InLoop)
          ~> [](pc[s] = "closed" /\ s \notin Range(active_connections))
    /\ [][\A c \in Conns :
            (/\ pc[c] \in InLoop
             /\ c \in Range(active_connections)
             /\ c \notin Range(active_connections')
             /\ closing'[c] = closing[c])
            => pc'[c] \in InLoop]_progress

\* C23 witness: a broadcast of another session failed on a connection and
\* deregistered it, and the session of that connection has ended its loop
\* by the one disconnect call of its own.
C23_Witness ==
    \E c \in Conns : \E s \in Conns \ {c} : \E k \in 1..Len(done[s]) :
        /\ pc[c] = "closed"
        /\ closing[c] = 1
        /\ c \in Range(done[s][k].failed)
        /\ c \notin Range(active_connections)

\* This step is one of the dispatch of session s: the frame arrives, or the
\* dispatch goes on from one of its awaits.
DispatchStep(s) ==
    /\ pc[s] \in {"receive", "send_personal", "gs_state", "act_call",
                  "act_state", "act_llm", "chat_state", "chat_llm",
                  "broadcast"}
    /\ pc'[s] # "closed"
    /\ (pc'[s] # pc[s] \/ sweep'[s] # sweep[s])

\* The frame is answered to its sender alone: ping, get_state, a message of
\* an unknown type, a frame that cannot be parsed.
PersonalIntent(f) ==
    \/ f.json # "object"
    \/ f.type \notin {"action", "chat"}

\* C24: a step of a dispatch adds no connection to the Registry, and every
\* connection it removes is one to which a send of this dispatch failed; so a
\* dispatch whose sends all succeed leaves the membership as it was; and a
\* dispatch of a personal intent removes no connection but the originating.
C24_DispatchRemovesFailedOnly ==
    [][\A s \in Conns :
         DispatchStep(s) =>
            /\ Range(active_connections') \subseteq Range(active_connections)
            /\ members' \subseteq members
            /\ \A c \in Range(active_connections)
                          \ Range(active_connections') :
                  /\ \E i \in 1..Len(sent'[c]) :
                        /\ sent'[c][i].d = disp'[s].id
                        /\ ~sent'[c][i].ok
                  /\ PersonalIntent(disp'[s].frame) => c = s
            /\ (\A c \in Conns : \A i \in 1..Len(sent'[c]) :
                   sent'[c][i].d = disp'[s].id => sent'[c][i].ok)
               => active_connections' = active_connections]_progress

\* C24 witness: the broadcast of a dispatch has failed on one connection and
\* succeeded on the originating one; the one is out of the Registry, the
\* other is in it.
C24_Witness ==
    \E s \in Conns : \E c \in Conns \ {s} : \E k \in 1..Len(done[s]) :
        /\ pc[s] = "dispatched"
        /\ c \in Range(done[s][k].failed)
        /\ c \notin Range(active_connections)
        /\ s \in Range(active_connections)
        /\ \E i \in 1..Len(sent[s]) :
              sent[s][i].d = disp[s].id /\ sent[s][i].ok

====
